---- MODULE Spec2Model ----
(***************************************************************************)
(* Basecoat SEO Image Tool (src/app.py): the batch analysis worker, the    *)
(* Tk event queue it posts to, the observer's button handlers, the inline  *)
(* editor of the result table and the rename pass over one image folder.   *)
(*                                                                         *)
(* Strings are sequences of one-character strings.  All files live in the  *)
(* one chosen folder, so a path is modelled by its base name               *)
(* (os.path.join(folder, f), os.path.basename and os.path.dirname cancel). *)
(* An extension such as ".jpg" is abbreviated to a dot and one letter.     *)
(***************************************************************************)
EXTENDS Integers, Sequences, FiniteSets, TLC

\* ------------------------------------------------------------------ bounds
MaxRuns == 2        \* runs started (_start_processing reaching the thread start)
MaxEdits == 1       \* inline editors opened (_on_double_click)
MaxRemovals == 1    \* files removed from the folder by something else
MaxPasses == 2      \* confirmed rename passes

\* ------------------------------------------------------------- characters
Letters == {"a", "b", "d", "e", "g", "i", "j", "k", "l", "m", "n", "o", "r",
            "s", "t", "u", "x", "E", "H", "J", "O", "P", "R", "U"}
Digits == {"0", "1", "2", "3", "4", "5", "6", "7", "8", "9"}
\* \w of the re module: letters, digits and the underscore
IsWord(c) == c \in Letters \cup Digits \cup {"_"}
\* \s of the re module, and what str.strip() removes
IsSpace(c) == c \in {" ", "\t"}

\* code points, for the order sorted() puts file names in
Code(c) ==
  CASE c = " " -> 32 [] c = "!" -> 33 [] c = "-" -> 45 [] c = "." -> 46
    [] c = "0" -> 48 [] c = "1" -> 49 [] c = "2" -> 50 [] c = "3" -> 51
    [] c = "4" -> 52 [] c = "5" -> 53 [] c = "6" -> 54 [] c = "7" -> 55
    [] c = "8" -> 56 [] c = "9" -> 57
    [] c = "E" -> 69 [] c = "J" -> 74 [] c = "O" -> 79 [] c = "R" -> 82
    [] c = "U" -> 85 [] c = "_" -> 95 [] c = "a" -> 97 [] c = "b" -> 98
    [] c = "d" -> 100 [] c = "e" -> 101 [] c = "i" -> 105 [] c = "j" -> 106
    [] c = "k" -> 107 [] c = "l" -> 108 [] c = "m" -> 109 [] c = "n" -> 110
    [] c = "t" -> 116

\* str.lower() on one character
LowerChar(c) == CASE c = "J" -> "j" [] c = "E" -> "e" [] c = "U" -> "u"
                  [] c = "R" -> "r" [] c = "O" -> "o" [] OTHER -> c
Lower(s) == [k \in 1..Len(s) |-> LowerChar(s[k])]

RECURSIVE StrLess(_, _)
\* s < t for Python strings
StrLess(s, t) ==
  IF s = <<>> THEN t # <<>>
  ELSE IF t = <<>> THEN FALSE
  ELSE IF Code(Head(s)) # Code(Head(t)) THEN Code(Head(s)) < Code(Head(t))
  ELSE StrLess(Tail(s), Tail(t))

RECURSIVE sorted(_)
\* sorted() of a set of distinct strings
sorted(S) ==
  IF S = {} THEN <<>>
  ELSE LET m == CHOOSE x \in S : \A y \in S \ {x} : StrLess(x, y)
       IN <<m>> \o sorted(S \ {m})

\* ------------------------------------------------------------ file names
IMAGE_EXTENSIONS == {<<".", "j">>}

RECURSIVE rfind(_, _)
\* str.rfind(c): the last 0-based index of c in s, or -1
rfind(s, c) ==
  IF s = <<>> THEN -1
  ELSE IF s[Len(s)] = c THEN Len(s) - 1
  ELSE rfind(SubSeq(s, 1, Len(s) - 1), c)

\* pathlib's Path(name).suffix
suffix(name) ==
  LET i == rfind(name, ".")
  IN IF 0 < i /\ i < Len(name) - 1 THEN SubSeq(name, i + 1, Len(name)) ELSE <<>>

RECURSIVE str(_)
\* str(n) for a non-negative integer
str(n) ==
  LET d == CHOOSE c \in Digits : Code(c) = 48 + (n % 10)
  IN IF n < 10 THEN <<d>> ELSE str(n \div 10) \o <<d>>

RECURSIVE SubKeep(_)
\* re.sub(r"[^\w\s-]", "", title)
SubKeep(s) ==
  IF s = <<>> THEN <<>>
  ELSE IF IsWord(Head(s)) \/ IsSpace(Head(s)) \/ Head(s) = "-"
       THEN <<Head(s)>> \o SubKeep(Tail(s))
       ELSE SubKeep(Tail(s))

RECURSIVE lstrip(_)
lstrip(s) == IF s # <<>> /\ IsSpace(Head(s)) THEN lstrip(Tail(s)) ELSE s

RECURSIVE rstrip(_)
rstrip(s) ==
  IF s # <<>> /\ IsSpace(s[Len(s)]) THEN rstrip(SubSeq(s, 1, Len(s) - 1)) ELSE s

\* str.strip()
strip(s) == rstrip(lstrip(s))

RECURSIVE SubSpaces(_)
\* re.sub(r"[\s]+", "-", name)
SubSpaces(s) ==
  IF s = <<>> THEN <<>>
  ELSE IF IsSpace(Head(s)) THEN <<"-">> \o SubSpaces(lstrip(s))
  ELSE <<Head(s)>> \o SubSpaces(Tail(s))

\* sanitize_filename without the strip()
sanitize_filename_unstripped(title) == SubSpaces(SubKeep(title))

sanitize_filename(title) == SubSpaces(strip(SubKeep(title)))

RECURSIVE ProbeFrom(_, _, _, _)
\* the while loop of make_unique_path, entered with the given counter
ProbeFrom(existing, stem, ext, counter) ==
  LET candidate == stem \o <<"-">> \o str(counter) \o ext
  IN IF candidate \notin existing THEN candidate
     ELSE ProbeFrom(existing, stem, ext, counter + 1)

\* the first counter make_unique_path tries
FirstCounter == 2

\* make_unique_path without the os.path.exists tests
make_unique_path_unchecked(existing, stem, ext) == stem \o ext

\* make_unique_path with the counter starting at 1
make_unique_path_from_one(existing, stem, ext) ==
  LET candidate == stem \o ext
  IN IF candidate \notin existing THEN candidate
     ELSE ProbeFrom(existing, stem, ext, 1)

\* make_unique_path, with os.path.exists read from the set of existing names
make_unique_path(existing, stem, ext) ==
  LET candidate == stem \o ext
  IN IF candidate \notin existing THEN candidate
     ELSE ProbeFrom(existing, stem, ext, FirstCounter)

\* ------------------------------------------------------------ constants
\* the title the worker gives an entry whose analysis raised
ERROR == <<"E", "R", "R", "O", "R">>
\* str(e)[:120]
MsgCap == 120
Truncate(s) == IF Len(s) <= MsgCap THEN s ELSE SubSeq(s, 1, MsgCap)

\* ------------------------------------------------- modelled environment
\* folders the program can be started on: name -> identity of the file's content
InitialDisks ==
  {(<<"a", ".", "j">> :> 1) @@ (<<"a", "-", "2", ".", "j">> :> 2),
   (<<"b", ".", "J">> :> 3)}
\* the folder on which the answers that lack a field are tried
PartialDisks == {(<<"d", ".", "j">> :> 4)}
\* titles the service returns
Titles == {<<"a">>, <<"!">>, ERROR}
AltText == <<"t">>
\* what generate_content and json.loads can give for one image
Responses ==
  {[kind |-> "raise", obj |-> <<>>, msg |-> <<"m">>]}
    \cup {[kind |-> "json", obj |-> ("title" :> t) @@ ("alt_text" :> AltText),
           msg |-> <<>>] : t \in Titles}
\* parsed answers that lack the title, the alt text, or both
PartialResponses ==
  {[kind |-> "json", obj |-> o, msg |-> <<>>] :
     o \in {("alt_text" :> AltText), ("title" :> <<"a">>), [key \in {} |-> <<>>]}}
\* the answers tried for an image, by the image's content: those that lack a
\* field are tried on the image of PartialDisks
ResponsesOf(content) ==
  IF content = 4
  THEN {r \in Responses : r.kind = "raise"} \cup PartialResponses
  ELSE Responses
\* what the user types into an inline editor
EditValues == {<<"b">>}
ApiKey == <<"k">>

VARIABLES
  disk,           \* the folder: existing file name -> content identity
  entry_api_key,  \* text of the API key entry of the settings tab
  api_key,        \* self.api_key
  folder_path,    \* self.folder_path
  image_files,    \* self.image_files
  results,        \* self.results
  processing,     \* self.processing
  btn,            \* state of the six buttons, TRUE for "normal"
  tree,           \* rows of the result table, in display order
  serial,         \* item ids the table has handed out
  progress_var,   \* self.progress_var as <<numerator, denominator>> of the fraction
  lbl_status,     \* text of the status label
  queue,          \* callbacks posted with root.after(0, ...), oldest first
  threads,        \* the worker threads started so far
  editors,        \* inline editors that are open
  outcome,        \* history: for each entry, how its analysis ended
  pass,           \* history: what the last rename pass did
  count,          \* history: how often each bounded step was taken
  call            \* one call of a naming function: its arguments and result

vars == <<disk, entry_api_key, api_key, folder_path, image_files, results,
          processing, btn, tree, serial, progress_var, lbl_status, queue,
          threads, editors, outcome, pass, count, call>>

Exists(path) == path \in DOMAIN disk
\* a path without a base name is the folder itself, which exists
Existing(d) == DOMAIN d \cup {<<>>}

Status(kind, a, b, name) == [kind |-> kind, a |-> a, b |-> b, name |-> name]
NoPass == [n |-> 0, log |-> <<>>, kinds |-> <<>>, before |-> <<>>,
           after |-> <<>>, diskBefore |-> <<>>, diskAfter |-> <<>>,
           renamed |-> 0, errors |-> 0, prev |-> {}]
NoCall == [fn |-> "none", args |-> <<>>, out |-> <<>>]

Buttons == {"process", "try_again", "rename", "save_txt", "new_task", "folder"}

Init ==
  /\ disk \in InitialDisks
  /\ entry_api_key = <<>>
  /\ api_key = <<>>
  /\ folder_path = <<>>
  /\ image_files = <<>>
  /\ results = <<>>
  /\ processing = FALSE
  /\ btn = [b \in Buttons |-> b \in {"process", "folder"}]
  /\ tree = <<>>
  /\ serial = 0
  /\ progress_var = <<0, 1>>
  /\ lbl_status = Status("ready", 0, 0, <<>>)
  /\ queue = <<>>
  /\ threads = <<>>
  /\ editors = {}
  /\ outcome = <<>>
  /\ pass = NoPass
  /\ count = [runs |-> 0, edits |-> 0, removals |-> 0, passes |-> 0]
  /\ call = NoCall

\* --------------------------------------------------------- analysis client
\* dict.get(key, default)
Get(obj, key, default) == IF key \in DOMAIN obj THEN obj[key] ELSE default

Untitled == <<"U", "n", "t", "i", "t", "l", "e", "d">>

\* analyze_image with result["title"] and result["alt_text"] in place of the
\* two result.get calls
analyze_image_strict(filepath, resp) ==
  IF ~Exists(filepath) THEN [raised |-> TRUE, title |-> <<>>, alt_text |-> <<>>,
                              msg |-> <<"m">>]
  ELSE IF resp.kind = "raise" \/ {"title", "alt_text"} \ DOMAIN resp.obj # {}
  THEN [raised |-> TRUE, title |-> <<>>, alt_text |-> <<>>, msg |-> <<"m">>]
  ELSE [raised |-> FALSE, title |-> resp.obj["title"],
        alt_text |-> resp.obj["alt_text"], msg |-> <<>>]

\* analyze_image without the open() of the file
analyze_image_unopened(filepath, resp) ==
  IF resp.kind = "raise" THEN [raised |-> TRUE, title |-> <<>>,
                               alt_text |-> <<>>, msg |-> resp.msg]
  ELSE [raised |-> FALSE, title |-> Get(resp.obj, "title", Untitled),
        alt_text |-> Get(resp.obj, "alt_text", <<>>), msg |-> <<>>]

\* analyze_image: the dict it returns, or that it raised (open() of a missing
\* file, the service call, json.loads)
analyze_image(filepath, resp) ==
  IF ~Exists(filepath) THEN [raised |-> TRUE, title |-> <<>>, alt_text |-> <<>>,
                              msg |-> <<"m">>]
  ELSE IF resp.kind = "raise" THEN [raised |-> TRUE, title |-> <<>>,
                                    alt_text |-> <<>>, msg |-> resp.msg]
  ELSE [raised |-> FALSE, title |-> Get(resp.obj, "title", Untitled),
        alt_text |-> Get(resp.obj, "alt_text", <<>>), msg |-> <<>>]

\* ------------------------------------------------------------ the observer
\* set_buttons_processing with Process Images left as it is when a run starts
set_buttons_processing_partial(is_processing) ==
  /\ processing' = is_processing
  /\ btn' = IF is_processing THEN [b \in Buttons |-> b = "process" /\ btn[b]]
            ELSE [b \in Buttons |-> b # "process"]

\* set_buttons_processing with Choose Folder and New Task left as they are
\* when a run starts
set_buttons_processing_list_open(is_processing) ==
  /\ processing' = is_processing
  /\ btn' = IF is_processing
            THEN [b \in Buttons |-> b \in {"folder", "new_task"} /\ btn[b]]
            ELSE [b \in Buttons |-> b # "process"]

\* _set_buttons_processing
set_buttons_processing(is_processing) ==
  /\ processing' = is_processing
  /\ btn' = IF is_processing THEN [b \in Buttons |-> FALSE]
            ELSE [b \in Buttons |-> b # "process"]

\* the user types a key into the settings tab's entry
TypeApiKey ==
  /\ entry_api_key = <<>>
  /\ entry_api_key' = ApiKey
  /\ UNCHANGED <<call, disk, api_key, folder_path, image_files, results, processing,
                 btn, tree, serial, progress_var, lbl_status, queue, threads,
                 editors, outcome, pass, count>>

\* _choose_folder, the dialog answered with the folder
ChooseFolder ==
  /\ btn["folder"]
  /\ folder_path' = <<"d">>
  /\ image_files' = sorted({f \in DOMAIN disk : Lower(suffix(f)) \in IMAGE_EXTENSIONS})
  /\ lbl_status' = Status("found", Len(image_files'), 0, <<>>)
  /\ UNCHANGED <<call, disk, entry_api_key, api_key, results, processing, btn, tree,
                 serial, progress_var, queue, threads, editors, outcome, pass,
                 count>>

\* history: the names the last pass over the present result list renamed a
\* file away from, and whether each names a file now
Stale ==
  {[old |-> pass.log[j].old, gone |-> pass.log[j].old \notin DOMAIN disk] :
     j \in {i \in 1..Len(pass.log) : pass.log[i].how = "renamed"}}

\* a thread that has not run yet: its locals are unset
NoThread == [pc |-> "begin", i |-> 0, total |-> 0, errors |-> <<>>,
             entry |-> <<>>, resp |-> <<>>, calls |-> <<>>, stale |-> {}]
\* nothing is left of the locals of the threads that have ended
Ended(ts) ==
  [t \in 1..Len(ts) |-> IF ts[t].pc = "exit" THEN [NoThread EXCEPT !.pc = "exit"]
                                              ELSE ts[t]]

\* _start_processing
start_processing ==
  LET key == strip(entry_api_key)
      new_key == IF key # <<>> THEN key ELSE api_key
  IN /\ api_key' = new_key
     /\ IF new_key = <<>> \/ image_files = <<>>
        THEN UNCHANGED <<call, disk, entry_api_key, folder_path, image_files, results,
                         processing, btn, tree, serial, progress_var, lbl_status,
                         queue, threads, editors, outcome, pass, count>>
        ELSE /\ count.runs < MaxRuns
             /\ results' = <<>>
             /\ outcome' = <<>>
             /\ pass' = NoPass
             /\ tree' = <<>>
             /\ set_buttons_processing(TRUE)
             /\ progress_var' = <<0, 1>>
             /\ threads' = Append(Ended(threads), [NoThread EXCEPT !.stale = Stale])
             /\ count' = [count EXCEPT !.runs = @ + 1]
             /\ UNCHANGED <<call, disk, entry_api_key, folder_path, image_files, serial,
                            lbl_status, queue, editors>>

\* the Process Images button
Process ==
  /\ btn["process"]
  /\ start_processing

\* _try_again
TryAgain ==
  /\ btn["try_again"]
  /\ IF image_files = <<>>
     THEN UNCHANGED vars
     ELSE start_processing

\* _new_task
NewTask ==
  /\ btn["new_task"]
  /\ folder_path' = <<>>
  /\ image_files' = <<>>
  /\ results' = <<>>
  /\ outcome' = <<>>
  /\ pass' = NoPass
  /\ tree' = <<>>
  /\ progress_var' = <<0, 1>>
  /\ lbl_status' = Status("ready", 0, 0, <<>>)
  /\ btn' = [btn EXCEPT !["process"] = TRUE, !["try_again"] = FALSE,
                        !["rename"] = FALSE, !["save_txt"] = FALSE,
                        !["new_task"] = FALSE]
  /\ UNCHANGED <<call, disk, entry_api_key, api_key, processing, serial, queue,
                 threads, editors, count>>

\* ------------------------------------------------------------- the worker
\* os.path.basename of a path in the folder
basename(path) == path

\* Post with the newest callback run first
PostFront(fn, arg) == <<[fn |-> fn, arg |-> arg]>> \o queue

\* root.after(0, fn, arg): the callback joins the queue of the main loop
Post(fn, arg) == Append(queue, [fn |-> fn, arg |-> arg])

\* LoopAt with the loop ending one item early
LoopAtShort(i) == IF i + 1 < Len(image_files) THEN "status" ELSE "done_status"

\* where the for loop of _process_worker goes when asked for item number i
LoopAt(i) == IF i < Len(image_files) THEN "status" ELSE "done_status"

\* _process_worker up to the first test of the for loop
WorkerBegin(t) ==
  /\ threads[t].pc = "begin"
  /\ threads' = [threads EXCEPT ![t].total = Len(image_files),
                                ![t].errors = <<>>,
                                ![t].i = 0,
                                ![t].pc = LoopAt(0)]
  /\ UNCHANGED <<call, disk, entry_api_key, api_key, folder_path, image_files, results,
                 processing, btn, tree, serial, progress_var, lbl_status, queue,
                 editors, outcome, pass, count>>

\* the "Processing i+1/total" status is posted
WorkerStatus(t) ==
  /\ threads[t].pc = "status"
  /\ queue' = Post("update_status",
                   Status("processing", threads[t].i + 1, threads[t].total,
                          basename(image_files[threads[t].i + 1])))
  /\ threads' = [threads EXCEPT ![t].pc = "analyze"]
  /\ UNCHANGED <<call, disk, entry_api_key, api_key, folder_path, image_files, results,
                 processing, btn, tree, serial, progress_var, lbl_status, editors,
                 outcome, pass, count>>

\* the entry the try/except of the loop body builds from the analysis
MakeEntry(filepath, r) ==
  [filepath |-> filepath,
   original_name |-> basename(filepath),
   title |-> IF r.raised THEN ERROR ELSE r.title,
   alt_text |-> IF r.raised THEN Truncate(r.msg) ELSE r.alt_text]

\* AfterAnalysis with the exception leaving the loop
AfterAnalysisAbort(r) == IF r.raised THEN "done_status" ELSE "row"

\* "except Exception" catches whatever analyze_image raises, so the loop body
\* goes on to build the entry either way
AfterAnalysis(r) == "row"

\* no service call is made for a file that cannot be read
NoResponse == [kind |-> "none", obj |-> <<>>, msg |-> <<>>]
\* what the calls of analyze_image for the file can meet
Answers(filepath) ==
  IF Exists(filepath) THEN ResponsesOf(disk[filepath]) ELSE {NoResponse}

\* the analysis of item i returns or raises, and the entry is appended
WorkerAnalyze(t) ==
  /\ threads[t].pc = "analyze"
  /\ \E resp \in Answers(image_files[threads[t].i + 1]) :
       LET filepath == image_files[threads[t].i + 1]
           r == analyze_image(filepath, resp)
           entry == MakeEntry(filepath, r)
       IN /\ results' = Append(results, entry)
          /\ outcome' = Append(outcome, IF r.raised THEN "Failure" ELSE "Success")
          /\ threads' = [threads EXCEPT
                           ![t].errors = IF r.raised
                                         THEN Append(@, basename(filepath)) ELSE @,
                           ![t].entry = entry,
                           ![t].resp = resp,
                           ![t].calls = Append(@, [filepath |-> filepath,
                                                   raised |-> r.raised,
                                                   kind |-> resp.kind]),
                           ![t].pc = AfterAnalysis(r)]
  /\ UNCHANGED <<call, disk, entry_api_key, api_key, folder_path, image_files,
                 processing, btn, tree, serial, progress_var, lbl_status, queue,
                 editors, pass, count>>

\* root.after(0, self._add_result_row, entry)
WorkerRow(t) ==
  /\ threads[t].pc = "row"
  /\ queue' = Post("add_result_row", threads[t].entry)
  /\ threads' = [threads EXCEPT ![t].pc = "progress"]
  /\ UNCHANGED <<call, disk, entry_api_key, api_key, folder_path, image_files, results,
                 processing, btn, tree, serial, progress_var, lbl_status, editors,
                 outcome, pass, count>>

\* root.after(0, self.progress_var.set, ...) and the next test of the loop
WorkerProgress(t) ==
  /\ threads[t].pc = "progress"
  /\ queue' = Post("progress_set", <<threads[t].i + 1, threads[t].total>>)
  /\ threads' = [threads EXCEPT ![t].i = @ + 1,
                                ![t].pc = LoopAt(threads[t].i + 1)]
  /\ UNCHANGED <<call, disk, entry_api_key, api_key, folder_path, image_files, results,
                 processing, btn, tree, serial, progress_var, lbl_status, editors,
                 outcome, pass, count>>

\* WorkerDoneStatus with the status telling of no error
WorkerDoneStatusNoCount(t) ==
  /\ threads[t].pc = "done_status"
  /\ queue' = Post("update_status", Status("done", threads[t].total, 0, <<>>))
  /\ threads' = [threads EXCEPT ![t].pc = "done_buttons"]
  /\ UNCHANGED <<call, disk, entry_api_key, api_key, folder_path, image_files, results,
                 processing, btn, tree, serial, progress_var, lbl_status, editors,
                 outcome, pass, count>>

\* the "Done!" status is posted
WorkerDoneStatus(t) ==
  /\ threads[t].pc = "done_status"
  /\ queue' = Post("update_status",
                   Status("done", threads[t].total, Len(threads[t].errors), <<>>))
  /\ threads' = [threads EXCEPT ![t].pc = "done_buttons"]
  /\ UNCHANGED <<call, disk, entry_api_key, api_key, folder_path, image_files, results,
                 processing, btn, tree, serial, progress_var, lbl_status, editors,
                 outcome, pass, count>>

\* root.after(0, self._set_buttons_processing, False); the thread ends
WorkerDoneButtons(t) ==
  /\ threads[t].pc = "done_buttons"
  /\ queue' = Post("set_buttons_processing", FALSE)
  /\ threads' = [threads EXCEPT ![t].pc = "exit"]
  /\ UNCHANGED <<call, disk, entry_api_key, api_key, folder_path, image_files, results,
                 processing, btn, tree, serial, progress_var, lbl_status, editors,
                 outcome, pass, count>>

\* --------------------------------------------------------- the event queue
\* _add_result_row (the thumbnail is not modelled)
add_result_row(entry) ==
  /\ tree' = Append(tree, [iid |-> serial + 1,
                           values |-> <<entry.original_name, entry.title,
                                        entry.alt_text>>])
  /\ serial' = serial + 1

\* the main loop runs the oldest posted callback
HandleUpdateStatus ==
  /\ queue # <<>> /\ Head(queue).fn = "update_status"
  /\ lbl_status' = Head(queue).arg
  /\ queue' = Tail(queue)
  /\ UNCHANGED <<call, disk, entry_api_key, api_key, folder_path, image_files, results,
                 processing, btn, tree, serial, progress_var, threads, editors,
                 outcome, pass, count>>

HandleAddRow ==
  /\ queue # <<>> /\ Head(queue).fn = "add_result_row"
  /\ add_result_row(Head(queue).arg)
  /\ queue' = Tail(queue)
  /\ UNCHANGED <<call, disk, entry_api_key, api_key, folder_path, image_files, results,
                 processing, btn, progress_var, lbl_status, threads, editors,
                 outcome, pass, count>>

HandleProgress ==
  /\ queue # <<>> /\ Head(queue).fn = "progress_set"
  /\ progress_var' = Head(queue).arg
  /\ queue' = Tail(queue)
  /\ UNCHANGED <<call, disk, entry_api_key, api_key, folder_path, image_files, results,
                 processing, btn, tree, serial, lbl_status, threads, editors,
                 outcome, pass, count>>

HandleSetButtons ==
  /\ queue # <<>> /\ Head(queue).fn = "set_buttons_processing"
  /\ set_buttons_processing(Head(queue).arg)
  /\ queue' = Tail(queue)
  /\ UNCHANGED <<call, disk, entry_api_key, api_key, folder_path, image_files, results,
                 tree, serial, progress_var, lbl_status, threads, editors,
                 outcome, pass, count>>

\* ------------------------------------------------------------ inline editing
HasItem(iid) == \E k \in 1..Len(tree) : tree[k].iid = iid
\* self.tree.index(item), 1-based
IndexOf(iid) == CHOOSE k \in 1..Len(tree) : tree[k].iid = iid

\* _on_double_click on the title (#2) or alt text (#3) cell of row k: an editor
\* opens over the cell and remembers the row's values
DoubleClick(k, col_index) ==
  /\ count.edits < MaxEdits
  /\ k \in 1..Len(tree)
  /\ editors' = editors \cup {[item |-> tree[k].iid, col_index |-> col_index,
                               current_values |-> tree[k].values]}
  /\ count' = [count EXCEPT !.edits = @ + 1]
  /\ UNCHANGED <<call, disk, entry_api_key, api_key, folder_path, image_files, results,
                 processing, btn, tree, serial, progress_var, lbl_status, queue,
                 threads, outcome, pass>>

\* SaveEdit writing to the first entry whatever the row
SaveEditFirstEntry(ed, new_val) ==
  /\ ed \in editors
  /\ HasItem(ed.item)
  /\ LET row_idx == IndexOf(ed.item)
         vals == [ed.current_values EXCEPT ![ed.col_index] = new_val]
     IN /\ tree' = [tree EXCEPT ![row_idx].values = vals]
        /\ results' =
             IF row_idx - 1 < Len(results)
             THEN IF ed.col_index = 2
                  THEN [results EXCEPT ![1].title = new_val]
                  ELSE [results EXCEPT ![1].alt_text = new_val]
             ELSE results
  /\ editors' = editors \ {ed}
  /\ UNCHANGED <<call, disk, entry_api_key, api_key, folder_path, image_files,
                 processing, btn, serial, progress_var, lbl_status, queue,
                 threads, outcome, pass, count>>

\* _save_edit (Return or FocusOut) with new_val in the editor.  When the row is
\* gone tree.item raises before anything is changed, so only the other case is
\* a step.
SaveEdit(ed, new_val) ==
  /\ ed \in editors
  /\ HasItem(ed.item)
  /\ LET row_idx == IndexOf(ed.item)
         vals == [ed.current_values EXCEPT ![ed.col_index] = new_val]
     IN /\ tree' = [tree EXCEPT ![row_idx].values = vals]
        /\ results' =
             IF row_idx - 1 < Len(results)
             THEN IF ed.col_index = 2
                  THEN [results EXCEPT ![row_idx].title = new_val]
                  ELSE [results EXCEPT ![row_idx].alt_text = new_val]
             ELSE results
  /\ editors' = editors \ {ed}
  /\ UNCHANGED <<call, disk, entry_api_key, api_key, folder_path, image_files,
                 processing, btn, serial, progress_var, lbl_status, queue,
                 threads, outcome, pass, count>>

\* Escape in the editor
CancelEdit(ed) ==
  /\ ed \in editors
  /\ editors' = editors \ {ed}
  /\ UNCHANGED <<call, disk, entry_api_key, api_key, folder_path, image_files, results,
                 processing, btn, tree, serial, progress_var, lbl_status, queue,
                 threads, outcome, pass, count>>

\* --------------------------------------------------------------- renaming
\* os_rename leaving the file under its old name as well
os_rename_copying(d, old, new) ==
  [n \in DOMAIN d \cup {new} |-> IF n = new THEN d[old] ELSE d[n]]

\* os.rename(old, new) that does not raise: the file gets the new name,
\* replacing whatever had it
os_rename(d, old, new) ==
  [n \in (DOMAIN d \ {old}) \cup {new} |-> IF n = new THEN d[old] ELSE d[n]]

\* NewPath with the extension put in lower case
NewPathLowerExt(d, entry) ==
  LET ext == Lower(suffix(entry.filepath))
      new_stem == sanitize_filename(entry.title)
  IN make_unique_path(Existing(d), new_stem, ext)

\* the name the loop body of _rename_files computes for an entry
NewPath(d, entry) ==
  LET ext == suffix(entry.filepath)
      new_stem == sanitize_filename(entry.title)
  IN make_unique_path(Existing(d), new_stem, ext)

\* RenameOne with the path of the entry set before os.rename is called
RenameOnePathFirst(st, idx, ok) ==
  LET result == st.results[idx]
      old_path == result.filepath
      new_path == NewPath(st.disk, result)
      step(how, to, d) == [idx |-> idx, old |-> old_path, new |-> to, how |-> how,
                           diskBefore |-> st.disk, diskAfter |-> d]
  IN IF old_path \notin DOMAIN st.disk
     THEN [st EXCEPT !.errors = @ + 1,
                     !.log = Append(@, step("missing", <<>>, st.disk))]
     ELSE IF ok
     THEN LET d == os_rename(st.disk, old_path, new_path)
          IN [st EXCEPT !.disk = d,
                        !.results[idx].filepath = new_path,
                        !.renamed = @ + 1,
                        !.log = Append(@, step("renamed", new_path, d))]
     ELSE [st EXCEPT !.errors = @ + 1,
                     !.results[idx].filepath = new_path,
                     !.log = Append(@, step("raised", new_path, st.disk))]

\* RenameOne with a missing file skipped without being counted
RenameOneMissingUncounted(st, idx, ok) ==
  LET result == st.results[idx]
      old_path == result.filepath
      new_path == NewPath(st.disk, result)
      step(how, to, d) == [idx |-> idx, old |-> old_path, new |-> to, how |-> how,
                           diskBefore |-> st.disk, diskAfter |-> d]
  IN IF old_path \notin DOMAIN st.disk
     THEN [st EXCEPT !.log = Append(@, step("missing", <<>>, st.disk))]
     ELSE IF ok
     THEN LET d == os_rename(st.disk, old_path, new_path)
          IN [st EXCEPT !.disk = d,
                        !.results[idx].filepath = new_path,
                        !.renamed = @ + 1,
                        !.log = Append(@, step("renamed", new_path, d))]
     ELSE [st EXCEPT !.errors = @ + 1,
                     !.log = Append(@, step("raised", new_path, st.disk))]

\* one iteration of the for loop of _rename_files, on the entry at index idx;
\* ok tells whether os.rename returns
RenameOne(st, idx, ok) ==
  LET result == st.results[idx]
      old_path == result.filepath
      new_path == NewPath(st.disk, result)
      step(how, to, d) == [idx |-> idx, old |-> old_path, new |-> to, how |-> how,
                           diskBefore |-> st.disk, diskAfter |-> d]
  IN IF old_path \notin DOMAIN st.disk
     THEN [st EXCEPT !.errors = @ + 1,
                     !.log = Append(@, step("missing", <<>>, st.disk))]
     ELSE IF ok
     THEN LET d == os_rename(st.disk, old_path, new_path)
          IN [st EXCEPT !.disk = d,
                        !.results[idx].filepath = new_path,
                        !.renamed = @ + 1,
                        !.log = Append(@, step("renamed", new_path, d))]
     ELSE [st EXCEPT !.errors = @ + 1,
                     !.log = Append(@, step("raised", new_path, st.disk))]

RECURSIVE RenameLoop(_, _, _)
\* the for loop of _rename_files over the entries at the indices in valid
RenameLoop(st, valid, oks) ==
  IF valid = <<>> THEN st
  ELSE RenameLoop(RenameOne(st, Head(valid), oks[Head(valid)]), Tail(valid), oks)

\* r["title"] != "ERROR"
IsValid(r) == r.title # ERROR

RECURSIVE ValidFrom(_, _)
ValidFrom(rs, k) ==
  IF k > Len(rs) THEN <<>>
  ELSE (IF IsValid(rs[k]) THEN <<k>> ELSE <<>>) \o ValidFrom(rs, k + 1)

\* valid = [r for r in self.results if r["title"] != "ERROR"], as indices
Valid(rs) == ValidFrom(rs, 1)

\* the steps of the last pass that ended the given way
Steps(how) == {j \in 1..Len(pass.log) : pass.log[j].how = how}

\* _rename_files leaving the Rename Files button as it is when the pass ends
rename_files_button_left ==
  /\ results # <<>>
  /\ Valid(results) # <<>>
  /\ count.passes < MaxPasses
  /\ \E oks \in [1..Len(results) -> BOOLEAN] :
       LET valid == Valid(results)
           st == RenameLoop([disk |-> disk, results |-> results, renamed |-> 0,
                             errors |-> 0, log |-> <<>>], valid, oks)
       IN /\ \A k \in 1..Len(results) : oks[k] \/ \E j \in 1..Len(st.log) :
                 st.log[j].idx = k /\ st.log[j].how = "raised"
          /\ disk' = st.disk
          /\ results' = st.results
          /\ lbl_status' = Status("renamed", st.renamed, st.errors, <<>>)
          /\ pass' = [n |-> pass.n + 1, log |-> st.log, kinds |-> outcome,
                      before |-> results, after |-> st.results,
                      diskBefore |-> disk, diskAfter |-> st.disk,
                      renamed |-> st.renamed, errors |-> st.errors,
                      prev |-> {[idx |-> pass.log[j].idx,
                                 title |-> pass.before[pass.log[j].idx].title] :
                                  j \in Steps("renamed")}]
  /\ count' = [count EXCEPT !.passes = @ + 1]
  /\ UNCHANGED <<call, entry_api_key, api_key, folder_path, image_files, processing,
                 btn, tree, serial, progress_var, queue, threads, editors, outcome>>

\* _rename_files with the confirmation answered yes
rename_files ==
  /\ results # <<>>
  /\ Valid(results) # <<>>
  /\ count.passes < MaxPasses
  \* oks[k]: os.rename returns for entry k; a choice only where it is called
  /\ \E oks \in [1..Len(results) -> BOOLEAN] :
       LET valid == Valid(results)
           st == RenameLoop([disk |-> disk, results |-> results, renamed |-> 0,
                             errors |-> 0, log |-> <<>>], valid, oks)
       IN /\ \A k \in 1..Len(results) : oks[k] \/ \E j \in 1..Len(st.log) :
                 st.log[j].idx = k /\ st.log[j].how = "raised"
          /\ disk' = st.disk
          /\ results' = st.results
          /\ lbl_status' = Status("renamed", st.renamed, st.errors, <<>>)
          /\ pass' = [n |-> pass.n + 1, log |-> st.log, kinds |-> outcome,
                      before |-> results, after |-> st.results,
                      diskBefore |-> disk, diskAfter |-> st.disk,
                      renamed |-> st.renamed, errors |-> st.errors,
                      prev |-> {[idx |-> pass.log[j].idx,
                                 title |-> pass.before[pass.log[j].idx].title] :
                                  j \in Steps("renamed")}]
  /\ btn' = [btn EXCEPT !["rename"] = FALSE]
  /\ count' = [count EXCEPT !.passes = @ + 1]
  /\ UNCHANGED <<call, entry_api_key, api_key, folder_path, image_files, processing,
                 tree, serial, progress_var, queue, threads, editors, outcome>>

\* the Rename Files button
RenameFiles ==
  /\ btn["rename"]
  /\ rename_files

\* _rename_files returning early: every title is "ERROR", or the confirmation
\* is answered no
RenameNothing ==
  /\ btn["rename"]
  /\ UNCHANGED vars

\* ------------------------------------------------------------ environment
\* something else removes a file from the folder
ExternalRemove(f) ==
  /\ count.removals < MaxRemovals
  /\ f \in DOMAIN disk
  /\ disk' = [n \in DOMAIN disk \ {f} |-> disk[n]]
  /\ count' = [count EXCEPT !.removals = @ + 1]
  /\ UNCHANGED <<call, entry_api_key, api_key, folder_path, image_files, results,
                 processing, btn, tree, serial, progress_var, lbl_status, queue,
                 threads, editors, outcome, pass>>

Worker ==
  \E t \in 1..Len(threads) :
    \/ WorkerBegin(t)
    \/ WorkerStatus(t)
    \/ WorkerAnalyze(t)
    \/ WorkerRow(t)
    \/ WorkerProgress(t)
    \/ WorkerDoneStatus(t)
    \/ WorkerDoneButtons(t)

Next ==
  \/ TypeApiKey
  \/ ChooseFolder
  \/ Process
  \/ TryAgain
  \/ NewTask
  \/ Worker
  \/ HandleUpdateStatus
  \/ HandleAddRow
  \/ HandleProgress
  \/ HandleSetButtons
  \/ \E k \in 1..Len(tree), col_index \in {2, 3} : DoubleClick(k, col_index)
  \/ \E ed \in editors, new_val \in EditValues : SaveEdit(ed, new_val)
  \/ \E ed \in editors : CancelEdit(ed)
  \/ RenameFiles
  \/ RenameNothing
  \/ \E f \in DOMAIN disk : ExternalRemove(f)

Spec == Init /\ [][Next]_vars

\* The worker thread keeps running while it has a step to take (every call of
\* analyze_image returns or raises), and the main loop of Tk runs every
\* callback that root.after(0, ...) has queued.
Fairness ==
  /\ WF_vars(Worker)
  /\ WF_vars(HandleUpdateStatus)
  /\ WF_vars(HandleAddRow)
  /\ WF_vars(HandleProgress)
  /\ WF_vars(HandleSetButtons)

SpecLive == Init /\ [][Next]_vars /\ Fairness

\* the program started on the folder whose image gets answers lacking a field
InitPartial ==
  /\ disk \in PartialDisks
  /\ entry_api_key = <<>>
  /\ api_key = <<>>
  /\ folder_path = <<>>
  /\ image_files = <<>>
  /\ results = <<>>
  /\ processing = FALSE
  /\ btn = [b \in Buttons |-> b \in {"process", "folder"}]
  /\ tree = <<>>
  /\ serial = 0
  /\ progress_var = <<0, 1>>
  /\ lbl_status = Status("ready", 0, 0, <<>>)
  /\ queue = <<>>
  /\ threads = <<>>
  /\ editors = {}
  /\ outcome = <<>>
  /\ pass = NoPass
  /\ count = [runs |-> 0, edits |-> 0, removals |-> 0, passes |-> 0]
  /\ call = NoCall

SpecPartial == InitPartial /\ [][Next]_vars

\* _rename_files called again on a result list it has gone through, whatever
\* the state of its button
CallRenameFiles ==
  /\ pass.n > 0
  /\ rename_files

NextDirect == Next \/ CallRenameFiles

\* the folders with a single image
DirectDisks == {d \in InitialDisks : Cardinality(DOMAIN d) = 1}

InitDirect ==
  /\ disk \in DirectDisks
  /\ entry_api_key = <<>>
  /\ api_key = <<>>
  /\ folder_path = <<>>
  /\ image_files = <<>>
  /\ results = <<>>
  /\ processing = FALSE
  /\ btn = [b \in Buttons |-> b \in {"process", "folder"}]
  /\ tree = <<>>
  /\ serial = 0
  /\ progress_var = <<0, 1>>
  /\ lbl_status = Status("ready", 0, 0, <<>>)
  /\ queue = <<>>
  /\ threads = <<>>
  /\ editors = {}
  /\ outcome = <<>>
  /\ pass = NoPass
  /\ count = [runs |-> 0, edits |-> 0, removals |-> 0, passes |-> 0]
  /\ call = NoCall

SpecDirect == InitDirect /\ [][NextDirect]_vars

\* ------------------------------------------------- naming functions alone
MaxSuffix == 10     \* largest numeric suffix among the names a folder starts with

ProbeStems == {<<"a">>, <<"b">>}
ProbeExts == {<<".", "j">>, <<".", "J">>}
Suffixed(stem, k, ext) == stem \o <<"-">> \o str(k) \o ext
ProbeNames ==
  {<<"a", ".", "j">>} \cup {Suffixed(<<"a">>, k, <<".", "j">>) : k \in 1..MaxSuffix}

InitNaming ==
  /\ disk \in {[n \in S |-> 1] : S \in SUBSET ProbeNames}
  /\ call \in {[fn |-> "make_unique_path", args |-> <<stem, ext>>, out |-> <<>>] :
                 stem \in ProbeStems, ext \in ProbeExts}
  /\ entry_api_key = <<>>
  /\ api_key = <<>>
  /\ folder_path = <<>>
  /\ image_files = <<>>
  /\ results = <<>>
  /\ processing = FALSE
  /\ btn = [b \in Buttons |-> b \in {"process", "folder"}]
  /\ tree = <<>>
  /\ serial = 0
  /\ progress_var = <<0, 1>>
  /\ lbl_status = Status("ready", 0, 0, <<>>)
  /\ queue = <<>>
  /\ threads = <<>>
  /\ editors = {}
  /\ outcome = <<>>
  /\ pass = NoPass
  /\ count = [runs |-> 0, edits |-> 0, removals |-> 0, passes |-> 0]

\* make_unique_path is called on the folder
CallMakeUniquePath ==
  /\ call.fn = "make_unique_path"
  /\ call.out = <<>>
  /\ call' = [call EXCEPT !.out = make_unique_path(Existing(disk), call.args[1],
                                                   call.args[2])]
  /\ UNCHANGED <<disk, entry_api_key, api_key, folder_path, image_files, results,
                 processing, btn, tree, serial, progress_var, lbl_status, queue,
                 threads, editors, outcome, pass, count>>

NextNaming == CallMakeUniquePath

SpecNaming == InitNaming /\ [][NextNaming]_vars

MaxTitleLen == 4    \* longest title tried character by character

\* one character of each kind the two patterns tell apart, and a second one
\* where runs or order matter
TitleChars == {"a", "b", "1", "_", "-", " ", "\t", "!", "/", "."}
SpacedTitle == <<" ", " ", "a", " ", " ", " ", "b", " ", " ">>
PaintingTitle ==
  <<"E", "x", "t", "e", "r", "i", "o", "r", " ", "H", "o", "u", "s", "e", " ",
    "P", "a", "i", "n", "t", "i", "n", "g", "!">>
SanitizeTitles ==
  UNION {[1..n -> TitleChars] : n \in 0..MaxTitleLen}
    \cup {SpacedTitle, PaintingTitle}

InitSanitize ==
  /\ disk \in InitialDisks
  /\ call \in {[fn |-> "sanitize_filename", args |-> <<title>>, out |-> <<>>] :
                 title \in SanitizeTitles}
  /\ entry_api_key = <<>>
  /\ api_key = <<>>
  /\ folder_path = <<>>
  /\ image_files = <<>>
  /\ results = <<>>
  /\ processing = FALSE
  /\ btn = [b \in Buttons |-> b \in {"process", "folder"}]
  /\ tree = <<>>
  /\ serial = 0
  /\ progress_var = <<0, 1>>
  /\ lbl_status = Status("ready", 0, 0, <<>>)
  /\ queue = <<>>
  /\ threads = <<>>
  /\ editors = {}
  /\ outcome = <<>>
  /\ pass = NoPass
  /\ count = [runs |-> 0, edits |-> 0, removals |-> 0, passes |-> 0]

\* sanitize_filename is called on the title; out holds what it returns
CallSanitize ==
  /\ call.fn = "sanitize_filename"
  /\ call.out = <<>>
  /\ call' = [call EXCEPT !.out = <<sanitize_filename(call.args[1])>>]
  /\ UNCHANGED <<disk, entry_api_key, api_key, folder_path, image_files, results,
                 processing, btn, tree, serial, progress_var, lbl_status, queue,
                 threads, editors, outcome, pass, count>>

NextSanitize == CallSanitize

SpecSanitize == InitSanitize /\ [][NextSanitize]_vars

\* ------------------------------------------------------------ properties
\* the worker of the run in flight
Cur == threads[Len(threads)]
Finishing == {"done_status", "done_buttons", "exit"}
Range(f) == {f[x] : x \in DOMAIN f}

\* entry k of a run in flight has the path and the name of file k, and there
\* is an entry for every file once the worker has left its loop
C1_Aligned ==
  processing =>
    /\ Len(results) <= Len(image_files)
    /\ \A k \in 1..Len(results) :
         /\ results[k].filepath = image_files[k]
         /\ results[k].original_name = basename(image_files[k])
    /\ (threads # <<>> /\ Cur.pc \in Finishing) => Len(results) = Len(image_files)
\* a step of a run in flight drops no entry and changes no path or name
C1_Grows ==
  (processing /\ processing') =>
    /\ Len(results') >= Len(results)
    /\ \A k \in 1..Len(results) :
         /\ results'[k].filepath = results[k].filepath
         /\ results'[k].original_name = results[k].original_name
\* C1: while a run is in flight the result list is an index-aligned prefix of
\* the input list (entry k has the path and the name of file k), it only grows
\* and its entries keep their path and name, and once the worker has left its
\* loop it is as long as the input list.
C1_ResultListIsOrderedPrefix == [](C1_Aligned) /\ [][C1_Grows]_vars
C1_Witness ==
  /\ processing /\ threads # <<>> /\ Cur.pc = "exit"
  /\ outcome = <<"Failure", "Success">>

\* the titles analyze_image can return
ReturnedTitles ==
  {Get(resp.obj, "title", Untitled) : resp \in {x \in Responses : x.kind = "json"}}

RECURSIVE RaisedNames(_)
\* the names of the files whose analysis raised, in call order
RaisedNames(calls) ==
  IF calls = <<>> THEN <<>>
  ELSE (IF Head(calls).raised THEN <<basename(Head(calls).filepath)>> ELSE <<>>)
         \o RaisedNames(Tail(calls))
\* C2: an analysis that raises never ends the run: the worker calls the
\* analysis for the files in input order without a gap, it has called it for
\* every file when it leaves the loop whatever raised before, its error list
\* holds exactly the names of the files whose analysis raised, and the entry
\* it builds for a file has the "ERROR" title when that file's analysis raised
\* and the returned title when it did not.
C2_FailureNeverAbortsRun ==
  (processing /\ threads # <<>>) =>
    /\ Len(Cur.calls) <= Len(image_files)
    /\ \A k \in 1..Len(Cur.calls) : Cur.calls[k].filepath = image_files[k]
    /\ Cur.pc \in Finishing => Len(Cur.calls) = Len(image_files)
    /\ Cur.pc \in {"status", "analyze"} => Len(Cur.calls) = Cur.i
    /\ Cur.errors = RaisedNames(Cur.calls)
    /\ Cur.calls # <<>> =>
         LET last == Cur.calls[Len(Cur.calls)]
         IN /\ Cur.entry.filepath = last.filepath
            /\ last.raised => Cur.entry.title = ERROR
            /\ ~last.raised => Cur.entry.title \in ReturnedTitles
C2_Witness ==
  /\ processing /\ threads # <<>> /\ Cur.pc = "exit"
  /\ Len(Cur.calls) = 2
  /\ Cur.calls[1].raised /\ ~Cur.calls[2].raised
  /\ Cur.errors = <<basename(image_files[1])>>

\* C3: no rename pass renames the file of an entry whose analysis failed, nor
\* counts it as renamed, whatever the user edited before.
C3_FailureNeverRenamed ==
  \A j \in Steps("renamed") : pass.kinds[pass.log[j].idx] # "Failure"

\* C4: a selected entry whose title sanitizes to the empty stem is not renamed
\* and keeps its path.
C4_EmptyStemSkipped ==
  \A j \in 1..Len(pass.log) :
    LET idx == pass.log[j].idx
    IN sanitize_filename(pass.before[idx].title) = <<>> =>
         /\ pass.log[j].how # "renamed"
         /\ pass.after[idx].filepath = pass.before[idx].filepath

PathsDistinct(rs) ==
  \A k, l \in 1..Len(rs) : k # l => rs[k].filepath # rs[l].filepath
PathsExist(rs, d) == \A k \in 1..Len(rs) : rs[k].filepath \in DOMAIN d
\* the last pass kept every file of the folder and renamed onto no name in use
NothingOverwritten ==
  /\ Cardinality(DOMAIN pass.diskAfter) = Cardinality(DOMAIN pass.diskBefore)
  /\ Range(pass.diskAfter) = Range(pass.diskBefore)
  /\ \A j \in Steps("renamed") \cup Steps("raised") :
       pass.log[j].new \notin DOMAIN pass.log[j].diskBefore
\* C5: a rename pass overwrites no file and leaves the number of files in the
\* folder as it was; and when before the pass the entries' paths all exist and
\* are pairwise distinct, they all exist and are pairwise distinct after it.
C5_NoOverwrite ==
  pass.n > 0 =>
    /\ NothingOverwritten
    /\ (PathsExist(pass.before, pass.diskBefore) /\ PathsDistinct(pass.before))
         => (PathsExist(pass.after, pass.diskAfter) /\ PathsDistinct(pass.after))
\* C5 as stated: with nothing else touching the folder, a rename pass
\* overwrites no file, leaves the number of files as it was, and the entries'
\* paths are pairwise distinct after it.
C5_AsStated ==
  (pass.n > 0 /\ count.removals = 0) =>
    (NothingOverwritten /\ PathsDistinct(pass.after))
C5_Witness ==
  /\ pass.n > 0
  /\ Steps("renamed") = {1, 2}
  /\ pass.before[1].title = pass.before[2].title
  /\ \E j \in {1, 2} : pass.log[j].new =
       Suffixed(sanitize_filename(pass.before[j].title), 3, suffix(pass.log[j].old))
  /\ PathsExist(pass.before, pass.diskBefore)

\* C6: make_unique_path returns stem+ext when no such file exists, and else
\* stem-k+ext for the smallest k >= 2 for which no such file exists; what it
\* returns does not exist.
C6_UniquePath ==
  (call.fn = "make_unique_path" /\ call.out # <<>>) =>
    LET stem == call.args[1]
        ext == call.args[2]
    IN /\ call.out \notin DOMAIN disk
       /\ (stem \o ext) \notin DOMAIN disk => call.out = stem \o ext
       /\ (stem \o ext) \in DOMAIN disk =>
            \E k \in 2..(MaxSuffix + 1) :
              /\ call.out = Suffixed(stem, k, ext)
              /\ \A j \in 2..(k - 1) : Suffixed(stem, j, ext) \in DOMAIN disk
C6_Witness ==
  /\ call.fn = "make_unique_path"
  /\ call.args = <<(<<"a">>), (<<".", "j">>)>>
  /\ DOMAIN disk = {<<"a", ".", "j">>, <<"a", "-", "2", ".", "j">>}
  /\ call.out = <<"a", "-", "3", ".", "j">>

\* C7: for every entry a pass tries to rename: when os.rename returns, the file
\* has the new name and the entry the new path; when it raises, folder and
\* path are as before; the two counts are the numbers of such entries; a raise
\* does not end the pass.
C7_RenameOutcome ==
  pass.n > 0 =>
    /\ \A j \in Steps("renamed") :
         LET s == pass.log[j]
         IN /\ pass.after[s.idx].filepath = s.new
            /\ s.old \notin DOMAIN s.diskAfter
            /\ s.new \in DOMAIN s.diskAfter
            /\ s.diskAfter[s.new] = s.diskBefore[s.old]
    /\ \A j \in Steps("raised") :
         LET s == pass.log[j]
         IN /\ pass.after[s.idx].filepath = pass.before[s.idx].filepath
            /\ s.diskAfter = s.diskBefore
    /\ pass.renamed = Cardinality(Steps("renamed"))
    /\ pass.errors = Cardinality(Steps("raised")) + Cardinality(Steps("missing"))
    /\ Len(pass.log) = Len(Valid(pass.before))
C7_Witness ==
  /\ pass.n > 0
  /\ Len(pass.log) = 2
  /\ pass.log[1].how = "raised"
  /\ pass.log[2].how = "renamed"
  /\ pass.renamed = 1 /\ pass.errors = 1

\* C8: an entry whose path does not exist when the pass comes to it is counted
\* as failed, nothing is renamed for it, and the pass goes on to the entries
\* after it.
C8_MissingSourceCounted ==
  pass.n > 0 =>
    /\ \A j \in 1..Len(pass.log) :
         LET s == pass.log[j]
         IN /\ s.how = "missing" <=> s.old \notin DOMAIN s.diskBefore
            /\ s.how = "missing" =>
                 /\ s.diskAfter = s.diskBefore
                 /\ pass.after[s.idx].filepath = pass.before[s.idx].filepath
            /\ s.idx = Valid(pass.before)[j]
    /\ pass.errors >= Cardinality(Steps("missing"))
    /\ pass.renamed + pass.errors = Len(Valid(pass.before))
C8_Witness ==
  /\ pass.n > 0
  /\ Len(pass.log) = 2
  /\ pass.log[1].how = "missing"
  /\ pass.log[2].how = "renamed"
  /\ pass.errors = 1

SuccessEntries == {k \in 1..Len(pass.kinds) : pass.kinds[k] = "Success"}
\* C9: a pass tries every entry whose analysis succeeded, once and in list
\* order, and no other entry: the two counts add up to the number of such
\* entries.
C9_EverySuccessOnce ==
  pass.n > 0 =>
    /\ pass.renamed + pass.errors = Cardinality(SuccessEntries)
    /\ {pass.log[j].idx : j \in 1..Len(pass.log)} = SuccessEntries
    /\ \A j, l \in 1..Len(pass.log) : j < l => pass.log[j].idx < pass.log[l].idx

IsItem(cb) == cb.fn \in {"add_result_row", "progress_set"}
Pending == SelectSeq(queue, IsItem)
RowsIn(q) == Len(SelectSeq(q, LAMBDA cb : cb.fn = "add_result_row"))
ProgressIn(q) == Len(SelectSeq(q, LAMBDA cb : cb.fn = "progress_set"))
\* rows and progress shown and queued are those of items 1, 2, ... in turn
C10_InOrder ==
  /\ Len(tree) <= Len(results)
  /\ \A k \in 1..Len(tree) : tree[k].values[1] = results[k].original_name
  /\ progress_var[1] <= Len(tree) /\ Len(tree) <= progress_var[1] + 1
  /\ \A m \in 1..Len(Pending) :
       LET cb == Pending[m]
           rows == Len(tree) + RowsIn(SubSeq(Pending, 1, m))
           done == progress_var[1] + ProgressIn(SubSeq(Pending, 1, m))
       IN /\ rows <= Len(results)
          /\ done <= rows /\ rows <= done + 1
          /\ cb.fn = "add_result_row" =>
               cb.arg.original_name = results[rows].original_name
          /\ cb.fn = "progress_set" =>
               /\ cb.arg[1] = done /\ done = rows
               /\ cb.arg[2] = Len(image_files)
  /\ progress_var[1] = progress_var[2] =>
       (Len(tree) = progress_var[2] /\ Len(tree) = Len(results))
  /\ (~processing /\ results # <<>>) =>
       (queue = <<>> /\ progress_var = <<Len(results), Len(results)>>
          /\ Len(tree) = Len(results))
\* a step of a run in flight lowers neither the progress nor the row count
C10_ProgressGrows ==
  (processing /\ processing') =>
    /\ progress_var'[1] * progress_var[2] >= progress_var[1] * progress_var'[2]
    /\ Len(tree') >= Len(tree)
\* C10: the main loop gets the row and the progress of item 1, then those of
\* item 2, and so on: the rows shown are the first entries of the result list
\* in order, the rows and progress values still queued continue them without a
\* gap, the progress never goes down during a run and is total/total exactly
\* when the row of the last item is shown.
C10_NotificationsInOrder == [](C10_InOrder) /\ [][C10_ProgressGrows]_vars
C10_Witness ==
  /\ processing
  /\ Len(tree) = 1
  /\ progress_var = <<1, 2>>
  /\ RowsIn(queue) = 1 /\ ProgressIn(queue) = 1

\* the number of entries of the run whose analysis raised
Failures == Cardinality({k \in 1..Len(outcome) : outcome[k] = "Failure"})
IsDone(cb) == cb.fn = "update_status" /\ cb.arg.kind = "done"
DonesIn(q) == Len(SelectSeq(q, IsDone))
\* the callbacks the loop of the worker posts for the items
IsOfItem(cb) ==
  \/ cb.fn \in {"add_result_row", "progress_set"}
  \/ cb.fn = "update_status" /\ cb.arg.kind = "processing"
\* at most one "Done!" is queued, behind every callback of the items, with the
\* number of files and of failures; the callback that ends the run is the last
\* one; the buttons are all disabled while the run is in flight
C11_DoneLast ==
  /\ DonesIn(queue) <= 1
  /\ \A m \in 1..Len(queue) :
       /\ IsDone(queue[m]) =>
            /\ \A n \in (m + 1)..Len(queue) : ~IsOfItem(queue[n])
            /\ queue[m].arg = Status("done", Len(image_files), Failures, <<>>)
            /\ Len(results) = Len(image_files)
            /\ Cur.pc \in {"done_buttons", "exit"}
       /\ queue[m].fn = "set_buttons_processing" =>
            /\ m = Len(queue)
            /\ queue[m].arg = FALSE
            /\ Cur.pc = "exit"
            /\ (DonesIn(queue) = 1 \/ lbl_status.kind = "done")
  /\ processing => \A b \in Buttons : ~btn[b]
  /\ (\E b \in Buttons \ {"process", "folder"} : btn[b]) => ~processing
\* "Done!" is posted only by the worker leaving its loop, and the run ends only
\* with that status shown and nothing of the run left in the queue
C11_DoneOnce ==
  /\ DonesIn(queue') > DonesIn(queue) =>
       /\ DonesIn(queue') = DonesIn(queue) + 1
       /\ Cur.pc = "done_status" /\ Cur'.pc = "done_buttons"
  /\ (processing /\ ~processing') =>
       /\ lbl_status = Status("done", Len(image_files), Failures, <<>>)
       /\ Cur.pc = "exit"
       /\ queue' = <<>>
       /\ btn'["try_again"] /\ btn'["rename"] /\ btn'["new_task"] /\ btn'["folder"]
\* C11: every run that was started ends: its worker posts "Done!" once, behind
\* the rows, statuses and progress values of all its items, with the number of
\* entries whose analysis raised; the processing flag becomes false, and the
\* buttons other than Process are enabled, only when that status is shown and
\* the callback posted after it is run, and that does happen.
C11_RunEndsWithOneDone ==
  /\ [](C11_DoneLast)
  /\ [][C11_DoneOnce]_vars
  /\ (processing ~> ~processing)
C11_Witness ==
  /\ ~processing /\ threads # <<>> /\ Cur.pc = "exit"
  /\ outcome = <<"Success", "Failure">>
  /\ lbl_status = Status("done", 2, 1, <<>>)
  /\ btn["try_again"] /\ btn["rename"]

\* C12: an entry is treated as failed (its title is the "ERROR" marker, which
\* keeps it out of the rename pass) exactly when its analysis raised, whatever
\* title the service returned; stated of the entries as the worker built them,
\* before any inline edit.
C12_OutcomeKindMatches ==
  count.edits = 0 =>
    \A k \in 1..Len(results) :
      /\ ~IsValid(results[k]) <=> outcome[k] = "Failure"
      /\ k \in Range(Valid(results)) <=> outcome[k] = "Success"

\* the last n characters of s
Last(s, n) == SubSeq(s, Len(s) - n + 1, Len(s))
\* the characters of s before its last n
ButLast(s, n) == SubSeq(s, 1, Len(s) - n)
\* C13: a file that is renamed keeps its extension, character by character:
\* the old name is a stem followed by the extension, the new name is another
\* stem followed by the same extension, neither stem holds a dot or a path
\* separator (so the file stays in its folder), and unless the new stem is
\* empty the new name's extension is read as the old one's.
C13_ExtensionKept ==
  \A j \in Steps("renamed") :
    LET s == pass.log[j]
        ext == suffix(s.old)
        n == Len(ext)
    IN /\ Lower(ext) \in IMAGE_EXTENSIONS
       /\ Len(s.new) >= n /\ Last(s.new, n) = ext
       /\ Last(s.old, n) = ext
       /\ \A c \in Range(ButLast(s.new, n)) \cup Range(ButLast(s.old, n)) :
            c \notin {".", "/"}
       /\ ButLast(s.new, n) # <<>> => suffix(s.new) = ext
       /\ s.new # s.old
       /\ pass.after[s.idx].filepath = s.new
C13_Witness ==
  /\ pass.n > 0
  /\ \E j \in Steps("renamed") :
       /\ pass.log[j].old = <<"b", ".", "J">>
       /\ pass.log[j].new = <<"a", ".", "J">>

IsKept(c) == IsWord(c) \/ c = "-"
IsAllowed(c) == IsKept(c) \/ IsSpace(c)
RECURSIVE IsSubseq(_, _)
\* s is t with some characters left out
IsSubseq(s, t) ==
  IF s = <<>> THEN TRUE
  ELSE IF t = <<>> THEN FALSE
  ELSE IF Head(s) = Head(t) THEN IsSubseq(Tail(s), Tail(t))
  ELSE IsSubseq(s, Tail(t))
\* the runs of whitespace that have a kept character on either side once the
\* disallowed characters are gone, by the place of the character after each
InnerRuns(title) ==
  LET T == SelectSeq(title, IsAllowed)
  IN {i \in 2..Len(T) : /\ IsSpace(T[i - 1]) /\ ~IsSpace(T[i])
                        /\ \E j \in 1..(i - 2) : ~IsSpace(T[j])}
\* C14: what sanitize_filename returns holds no whitespace and no character
\* other than letters, digits, underscore and hyphen; it is the title's
\* letters, digits, underscores and hyphens in their order, with one hyphen
\* more for each run of whitespace that has such characters on both sides;
\* "  a   b  " gives "a-b" and "Exterior House Painting!" gives
\* "Exterior-House-Painting".
C14_Sanitize ==
  (call.fn = "sanitize_filename" /\ call.out # <<>>) =>
    LET title == call.args[1]
        out == call.out[1]
        K == SelectSeq(title, IsKept)
    IN /\ \A k \in 1..Len(out) : IsKept(out[k]) /\ ~IsSpace(out[k])
       /\ SelectSeq(out, IsWord) = SelectSeq(title, IsWord)
       /\ IsSubseq(K, out)
       /\ Len(out) = Len(K) + Cardinality(InnerRuns(title))
       /\ (\A k \in 1..Len(title) : title[k] # "-") =>
            /\ out # <<>> => (out[1] # "-" /\ out[Len(out)] # "-")
            /\ \A k \in 1..(Len(out) - 1) : ~(out[k] = "-" /\ out[k + 1] = "-")
       /\ title = SpacedTitle => out = <<"a", "-", "b">>
       /\ title = PaintingTitle =>
            out = <<"E", "x", "t", "e", "r", "i", "o", "r", "-", "H", "o", "u",
                    "s", "e", "-", "P", "a", "i", "n", "t", "i", "n", "g">>
C14_Witness ==
  /\ call.fn = "sanitize_filename"
  /\ call.args[1] = <<"a", "!", "\t", " ">>
  /\ call.out = <<(<<"a">>)>>

\* C15: when the service answered and the answer was parsed, the analysis does
\* not raise, the entry is built with the answer's title, or "Untitled" when
\* it has none, and with its alt text, or the empty string when it has none,
\* and the entry counts as a success, also for the rename pass; among the
\* files that could be read only a call the service or the parser failed
\* raises.
C15_MissingFieldDefaults ==
  threads # <<>> =>
    /\ \A k \in 1..Len(Cur.calls) :
         LET c == Cur.calls[k]
         IN /\ c.kind = "json" =>
                 /\ ~c.raised
                 /\ Len(outcome) >= k => outcome[k] = "Success"
            /\ c.kind = "raise" => c.raised
            /\ c.raised => c.kind \in {"raise", "none"}
    /\ (Cur.calls # <<>> /\ Cur.resp.kind = "json") =>
         LET e == Cur.entry
             has(key) == key \in DOMAIN Cur.resp.obj
         IN /\ e.title = (IF has("title") THEN Cur.resp.obj["title"] ELSE Untitled)
            /\ e.alt_text = (IF has("alt_text") THEN Cur.resp.obj["alt_text"] ELSE <<>>)
            /\ ~has("title") => IsValid(e)
            /\ Cur.pc = "row" => results[Len(results)] = e
C15_Witness ==
  /\ threads # <<>> /\ Cur.pc = "exit" /\ ~processing
  /\ Len(Cur.calls) = 1
  /\ Cur.resp.kind = "json" /\ DOMAIN Cur.resp.obj = {"alt_text"}
  /\ Len(results) = 1 /\ results[1].title = Untitled
  /\ outcome = <<"Success">>
  /\ pass.n > 0 /\ Steps("renamed") = {1}
  /\ pass.log[1].new = Untitled \o <<".", "j">>

\* the steps of the last pass that renamed the file of an entry the pass
\* before had renamed, the entry's title being the same in both
RenamedAgain ==
  {j \in Steps("renamed") :
     /\ [idx |-> pass.log[j].idx, title |-> pass.before[pass.log[j].idx].title]
          \in pass.prev
     /\ pass.kinds[pass.log[j].idx] = "Success"}
IsSuffixed(name, stem, ext) ==
  \E k \in 2..(Len(name) + 2) : name = Suffixed(stem, k, ext)
\* C16: a second pass over an entry that a pass has renamed already is not a
\* no-op: the entry's file, named after the title, is renamed again, to the
\* same stem with a collision suffix when it had the plain name; the file is
\* moved, so that the old name is gone and the folder holds as many files as
\* before.
C16_SecondPassRenamesAgain ==
  \A j \in RenamedAgain :
    LET s == pass.log[j]
        e == pass.before[s.idx]
        stem == sanitize_filename(e.title)
        ext == suffix(s.old)
    IN /\ s.old = e.filepath
       /\ s.new # s.old
       /\ pass.after[s.idx].filepath = s.new
       /\ s.new = stem \o ext \/ IsSuffixed(s.new, stem, ext)
       /\ s.old = stem \o ext => s.new = Suffixed(stem, 2, ext)
       /\ s.old \notin DOMAIN s.diskAfter
       /\ s.diskAfter[s.new] = s.diskBefore[s.old]
       /\ Cardinality(DOMAIN s.diskAfter) = Cardinality(DOMAIN s.diskBefore)
\* C16 as stated: a second pass over an entry that a pass has renamed already
\* makes a second file, with a collision suffix, beside the one the first pass
\* made.
C16_AsStated ==
  \A j \in RenamedAgain :
    LET s == pass.log[j]
    IN /\ s.new # s.old
       /\ s.new \in DOMAIN s.diskAfter
       /\ s.old \in DOMAIN s.diskAfter
C16_Witness ==
  /\ pass.n = 2
  /\ RenamedAgain = {1}
  /\ pass.log[1].old = <<"a", ".", "J">>
  /\ pass.log[1].new = <<"a", "-", "2", ".", "J">>
  /\ DOMAIN disk = {<<"a", "-", "2", ".", "J">>}

\* a step taken while a run is in flight leaves the title and the alt text of
\* every entry of the result list as they are
C17_EntriesKept ==
  (processing /\ processing') =>
    /\ Len(results') >= Len(results)
    /\ \A k \in 1..Len(results) :
         /\ results'[k].title = results[k].title
         /\ results'[k].alt_text = results[k].alt_text
\* C17: from the start of a run until the callback that ends it has run, only
\* the worker changes the result list, and it only appends: no step, and in
\* particular no inline edit of a row that is shown already, changes the title
\* or the alt text of an entry.
C17_OnlyWorkerMutatesDuringRun == [][C17_EntriesKept]_vars

\* the workers that have not ended
Running == {t \in 1..Len(threads) : threads[t].pc # "exit"}
\* at most one worker has not ended, it is the one started last and the run
\* is flagged as in flight; with no run in flight nothing is queued
C18_OneWorker ==
  /\ Cardinality(Running) <= 1
  /\ Running # {} => (Running = {Len(threads)} /\ processing)
  /\ ~processing => queue = <<>>
  /\ processing => threads # <<>>
\* a worker is started, and the result list is emptied, only with every
\* earlier worker ended and nothing left in the queue
C18_StartsAlone ==
  /\ Len(threads') > Len(threads) =>
       /\ Running = {} /\ ~processing /\ queue = <<>>
       /\ Len(threads') = Len(threads) + 1
  /\ (results # <<>> /\ results' = <<>>) =>
       (Running = {} /\ ~processing /\ queue = <<>>)
\* C18: of the workers started by Process and Try Again at most one is running
\* at any time, however these, New Task, Choose Folder and Rename are mixed
\* with the callbacks the worker has queued: a worker is started only when the
\* one before it has ended, and then, and when the result list is cleared, no
\* callback of an earlier run is left in the queue.
C18_AtMostOneRun == [](C18_OneWorker) /\ [][C18_StartsAlone]_vars
C18_Witness ==
  /\ Len(threads) = 2
  /\ threads[1].pc = "exit" /\ threads[2].pc = "analyze"
  /\ processing /\ queue # <<>>
  /\ pass = NoPass /\ count.passes = 1

Min(a, b) == IF a < b THEN a ELSE b
\* the entries whose file the pass of this step renamed
RenamedNow == {pass'.log[j].idx : j \in {i \in 1..Len(pass'.log) :
                                          pass'.log[i].how = "renamed"}}
\* a step changes an entry's path only by renaming that entry's file, never
\* its original name; a pass changes nothing but the paths of the entries it
\* renamed; a saved edit changes the title or the alt text of the entry of the
\* edited row and nothing else
C19_Frame ==
  /\ \A k \in 1..Min(Len(results), Len(results')) :
       /\ results'[k].original_name = results[k].original_name
       /\ results'[k].filepath # results[k].filepath =>
            /\ pass'.n = pass.n + 1
            /\ k \in RenamedNow
            /\ \E j \in 1..Len(pass'.log) :
                 /\ pass'.log[j].idx = k /\ pass'.log[j].how = "renamed"
                 /\ pass'.log[j].old = results[k].filepath
                 /\ pass'.log[j].new = results'[k].filepath
                 /\ pass'.log[j].new \in DOMAIN pass'.log[j].diskAfter
  /\ pass'.n = pass.n + 1 =>
       /\ Len(results') = Len(results)
       /\ \A k \in 1..Len(results) :
            /\ results'[k].title = results[k].title
            /\ results'[k].alt_text = results[k].alt_text
            /\ k \notin RenamedNow => results'[k] = results[k]
  /\ (editors' # editors /\ results' # results) =>
       \E ed \in editors \ editors' :
         LET row == IndexOf(ed.item)
         IN /\ Len(results') = Len(results)
            /\ \A k \in 1..Len(results) : k # row => results'[k] = results[k]
            /\ results'[row].filepath = results[row].filepath
            /\ \/ results'[row].alt_text = results[row].alt_text
               \/ results'[row].title = results[row].title
\* C19: the path of an entry changes only when a rename pass has renamed that
\* entry's file, and then to the file's new name; the original name of an
\* entry never changes; a saved inline edit changes only the title or the alt
\* text of the entry of the edited row; a rename pass changes no title, no alt
\* text and no field of an entry it did not rename.
C19_PathChangesOnlyByOwnRename == [][C19_Frame]_vars
C19_Witness ==
  /\ pass.n > 0 /\ Len(pass.log) = 2
  /\ pass.log[1].how = "renamed" /\ pass.log[2].how = "raised"
  /\ pass.before[2].title = <<"b">>
  /\ results[1].filepath # pass.before[1].filepath
  /\ results[2] = pass.before[2]

\* the calls of the run in flight made on a name the pass before the run had
\* renamed a file away from, by the place of the file in the list
StaleCalls ==
  {k \in 1..Len(Cur.calls) : \E s \in Cur.stale : s.old = Cur.calls[k].filepath}
\* a call on such a name is made with that name, and when no file had the name
\* at the start of the run the call raises and the entry is a failed one
C20_StaleFails ==
  (processing /\ threads # <<>>) =>
    /\ \A k \in 1..Len(image_files) :
         (k <= Len(Cur.calls) /\ \E s \in Cur.stale : s.old = image_files[k]) =>
           k \in StaleCalls
    /\ \A k \in StaleCalls :
         \A s \in Cur.stale :
           (s.old = Cur.calls[k].filepath /\ s.gone) =>
             /\ Cur.calls[k].kind = "none"
             /\ Cur.calls[k].raised
             /\ outcome[k] = "Failure"
             /\ results[k].filepath = s.old
             /\ s.old \notin DOMAIN disk
\* a rename pass leaves the list of files of the run as it is
C20_ListKept == pass'.n = pass.n + 1 => image_files' = image_files
\* C20: a rename pass does not change the list of files a run goes through, so
\* a run started again after a pass that renamed a file calls the analysis with
\* the name the file had before; when no file has that name any more the call
\* raises and a failed entry is recorded for it.
C20_RerunUsesStalePaths == [](C20_StaleFails) /\ [][C20_ListKept]_vars
\* C20 as stated: in a run started again after a pass that renamed a file, the
\* call made with the name the file had before raises and a failed entry is
\* recorded for it, with nothing but the program touching the folder.
C20_AsStated ==
  (processing /\ threads # <<>> /\ count.removals = 0) =>
    \A k \in StaleCalls : Cur.calls[k].raised /\ outcome[k] = "Failure"
C20_Witness ==
  /\ processing /\ Len(threads) = 2 /\ Cur.pc = "exit"
  /\ Cur.stale = {[old |-> <<"b", ".", "J">>, gone |-> TRUE]}
  /\ Cur.calls = <<[filepath |-> <<"b", ".", "J">>, raised |-> TRUE,
                    kind |-> "none"]>>
  /\ outcome = <<"Failure">>
  /\ DOMAIN disk = {<<"a", ".", "J">>}

\* the runs that have completed: their worker thread has ended
Completed == {t \in 1..Len(threads) : threads[t].pc = "exit"}
\* the Rename Files button is available only when a run has completed and no
\* pass has gone over the result list since the last run started
C21_Available ==
  btn["rename"] => /\ pass.n = 0
                   /\ ~processing
                   /\ Completed = 1..Len(threads)
                   /\ threads # <<>>
\* C21: through the buttons a rename pass runs at most once per completed
\* run: after a pass the Rename Files button stays unavailable until another
\* run has completed, which has cleared the result list first, so that no pass
\* goes over entries that a pass has gone over already and no entry is renamed
\* by two passes.
C21_RenameOncePerRun ==
  /\ C21_Available
  /\ pass.n <= 1
  /\ RenamedAgain = {}
  /\ count.passes <= Cardinality(Completed)
  /\ pass.n = 1 => /\ pass.before # <<>>
                   /\ Len(pass.after) = Len(pass.before)
                   /\ Len(results) = Len(pass.after)
C21_Witness ==
  /\ count.passes = 2
  /\ Cardinality(Completed) = 2
  /\ pass.n = 1
  /\ Steps("renamed") # {}
  /\ ~btn["rename"]

\* the progress values that are waiting in the queue of the main loop
ProgressPending ==
  {k \in 1..Len(queue) : queue[k].fn = "progress_set"}
\* while a run is active Choose Folder and New Task are unavailable, the
\* worker's total is the length of the list, which is not empty, and every
\* progress value is a fraction of that total
C22_TotalOfRun ==
  /\ processing => /\ ~btn["folder"] /\ ~btn["new_task"]
                   /\ image_files # <<>>
  /\ \A t \in Running :
       /\ processing
       /\ threads[t].pc # "begin" =>
            /\ threads[t].total = Len(image_files)
            /\ threads[t].total > 0
            /\ threads[t].i <= threads[t].total
  /\ \A k \in ProgressPending :
       /\ processing
       /\ queue[k].arg[2] = Len(image_files)
       /\ queue[k].arg[2] > 0
       /\ queue[k].arg[1] \in 1..queue[k].arg[2]
  /\ progress_var[2] > 0
\* a worker starts on a list that is not empty, and no step taken while a run
\* is active changes the list
C22_ListOfRun ==
  /\ Len(threads') > Len(threads) => image_files # <<>> /\ image_files' = image_files
  /\ processing \/ Running # {} => image_files' = image_files
  /\ \A t \in 1..Len(threads) :
       t \in Running /\ threads[t].pc # "begin" /\ threads'[t].pc # "exit" =>
         threads'[t].total = threads[t].total
\* C22: a worker is started with a list of files that is not empty only, and
\* while the run is active no action changes the list (Choose Folder and New
\* Task are unavailable), so that the total of every progress computation of
\* the run is the same and is greater than zero.
C22_TotalConstantPositive ==
  [](C22_TotalOfRun) /\ [][C22_ListOfRun]_vars
C22_Witness ==
  /\ processing
  /\ Len(image_files) = 2
  /\ \E t \in Running : threads[t].total = 2 /\ threads[t].i = 2
  /\ \E k \in ProgressPending : queue[k].arg = <<1, 2>>
  /\ \E k \in ProgressPending : queue[k].arg = <<2, 2>>
====
